---- MODULE Spec2Model ----
(***************************************************************************)
(* WhatsTerm: WhatsApp ingestion (src/src/whatsapp/baileys.ts) over the    *)
(* shared MongoDB handle (src/src/db/mongo.ts), started by main            *)
(* (src/unnamed/part_002).                                                 *)
(*                                                                         *)
(* The state is the two collections of the store, the outbound sends, the  *)
(* module-level client/db of mongo.ts, the socket clients created by       *)
(* startWhatsApp, the process.nextTick queue, the startWhatsApp calls in   *)
(* flight and one record per messages.upsert handler invocation.  A step   *)
(* of a handler runs from one `await` to the next, as the event loop runs  *)
(* it; handlers of different batches and sockets interleave at awaits.     *)
(*                                                                         *)
(* Each call on a collection is one atomic operation of the store, and a   *)
(* call that rejects leaves the store as it was.  The lines written with   *)
(* console.log are not kept; console.error calls are counted.              *)
(***************************************************************************)
EXTENDS Integers, Sequences, FiniteSets, TLC

VARIABLES
    conversations,   \* collection "conversations", in insertion order
    messages,        \* collection "messages", in insertion order
    sent,            \* socket.sendMessage calls that resolved
    client,          \* mongo.ts `client`: 0 = null, else the n-th MongoClient
    db,              \* mongo.ts `db`: 0 = null, else the client it came from
    clock,           \* the wall clock as last read by `new Date()`
    returnsValue,    \* does this build's driver fill findOneAndUpdate().value
    sockets,         \* socket clients made by makeWASocket, oldest first
    nextTick,        \* callbacks queued with process.nextTick
    starts,          \* startWhatsApp calls, by origin and position
    exited,          \* process.exit(1) was called
    errors,          \* console.error calls (catch blocks, main, restart)
    restartCloses,   \* history: 'close' events that carried status code 515
    credsSaved,      \* calls of saveCreds
    handlers,        \* messages.upsert handler invocations
    inputs,          \* external input consumed so far: one per emitted event
                     \* plus one per message of a batch
    failures,        \* awaited calls that rejected so far
    extraction       \* input and result of the text extraction taken alone

\* the two collections and the outbound sends
store == <<conversations, messages, sent>>
\* module state of mongo.ts
mongo == <<client, db>>
\* the supervisor's side
supervisor == <<sockets, nextTick, starts, exited, restartCloses, credsSaved>>

vars == <<conversations, messages, sent, client, db, clock, returnsValue,
          sockets, nextTick, starts, exited, errors, restartCloses,
          credsSaved, handlers, inputs, failures, extraction>>

\* Bounds of the model.
MaxInputs == 4
MaxFailures == 1

\* Program constants.
RestartRequired == 515
LoggedOut == 401

\* null / undefined of the source.
Null == "<null>"

Participants == {"p1", "p2"}

-----------------------------------------------------------------------------
(* Inbound events (WAMessage): key.id, key.fromMe, key.remoteJid, message  *)
(* (present or not) with its four text-bearing fields, messageTimestamp    *)
(* (0 = absent).                                                           *)

Evt(fromMe, hasMessage, jid, conv, img, vid, doc, ts) ==
    [fromMe |-> fromMe, message |-> hasMessage, remoteJid |-> jid,
     conversation |-> conv, imageCaption |-> img, videoCaption |-> vid,
     documentCaption |-> doc, messageTimestamp |-> ts]

EventShapes ==
    { Evt(FALSE, TRUE,  "p1", "hello", Null, Null, Null, 1),   \* plain text
      Evt(FALSE, TRUE,  "p1", "/ping", Null, Null, Null, 1),   \* command
      Evt(TRUE,  TRUE,  "p1", "/ping", Null, Null, Null, 1),   \* self echo
      Evt(FALSE, TRUE,  Null, "hello", Null, Null, Null, 1),   \* no remoteJid
      Evt(FALSE, TRUE,  "p2", Null, Null, Null, Null, 0),      \* no text at all
      Evt(FALSE, FALSE, "p1", Null, Null, Null, Null, 1) }     \* no content

WithId(shape, id) ==
    [id |-> id, fromMe |-> shape.fromMe, message |-> shape.message,
     remoteJid |-> shape.remoteJid, conversation |-> shape.conversation,
     imageCaption |-> shape.imageCaption, videoCaption |-> shape.videoCaption,
     documentCaption |-> shape.documentCaption,
     messageTimestamp |-> shape.messageTimestamp]

BatchTypes == {"notify", "append"}

-----------------------------------------------------------------------------
(* Pure parts of the messages.upsert handler.                              *)

\* a ?? b
Coalesce(a, b) == IF a # Null THEN a ELSE b

\* variant: the batch kind is not looked at
ShouldProcessAnyKind(type) == TRUE

ShouldProcess(type) == type = "notify"

\* variant: no self-echo suppression
SkipsEventButEcho(msg) ==
    \/ ~msg.message
    \/ msg.remoteJid = Null

\* variant: a missing remoteJid is not skipped
SkipsEventButNoJid(msg) ==
    \/ msg.fromMe
    \/ ~msg.message

SkipsEvent(msg) ==
    \/ msg.fromMe
    \/ ~msg.message
    \/ msg.remoteJid = Null

ExtractText(msg) ==
    Coalesce(msg.conversation,
      Coalesce(msg.imageCaption,
        Coalesce(msg.videoCaption,
          Coalesce(msg.documentCaption, Null))))

\* variant: the command is compared without its slash
IsPingNoSlash(text) == text = "ping"

IsPing(text) == text = "/ping"

Timestamp(msg, now) ==
    IF msg.messageTimestamp # 0 THEN msg.messageTimestamp * 1000 ELSE now

-----------------------------------------------------------------------------
(* The store.                                                              *)

Matching(convs, jid) == { i \in 1..Len(convs) : convs[i].from = jid }

Min(S) == CHOOSE x \in S : \A y \in S : x <= y

\* conversations.findOne({from}): the first match, 0 when there is none
FindOne(convs, jid) ==
    IF Matching(convs, jid) = {} THEN 0 ELSE convs[Min(Matching(convs, jid))]._id

\* variant: createdAt under $set, written at every update
UpdateMatchedSetsCreatedAt(convs, jid, now) ==
    [convs EXCEPT ![Min(Matching(convs, jid))].updatedAt = now,
                  ![Min(Matching(convs, jid))].createdAt = now]

\* findOneAndUpdate on a match: $set { updatedAt } on the first matching
\* document; $setOnInsert is not applied
UpdateMatched(convs, jid, now) ==
    [convs EXCEPT ![Min(Matching(convs, jid))].updatedAt = now]

\* the insert of an upsert that matched nothing: { from } of the filter,
\* $setOnInsert { from, createdAt } and $set { updatedAt }, a fresh _id
InsertUpserted(convs, jid, now) ==
    Append(convs, [_id |-> Len(convs) + 1, from |-> jid,
                   createdAt |-> now, updatedAt |-> now])

\* findOneAndUpdate({from}, {$set, $setOnInsert}, {upsert}) with no other
\* writer between its lookup and its write
UpsertConversation(convs, jid, now) ==
    IF Matching(convs, jid) = {}
    THEN InsertUpserted(convs, jid, now)
    ELSE UpdateMatched(convs, jid, now)

\* variant: the conversation's identifier is lost (conversation.id)
MessageDocumentNoOwner(conversationId, text, msg, timestamp, now) ==
    [conversationId |-> 0, direction |-> "incoming",
     text |-> text, rawPayload |-> msg, timestamp |-> timestamp,
     createdAt |-> now]

MessageDocument(conversationId, text, msg, timestamp, now) ==
    [conversationId |-> conversationId, direction |-> "incoming",
     text |-> text, rawPayload |-> msg, timestamp |-> timestamp,
     createdAt |-> now]

-----------------------------------------------------------------------------
\* the text extraction taken alone: not in use in the running system
Idle == [msg |-> Null, text |-> Null, done |-> TRUE]

\* the store at start: p1 has written before, p2 never has
InitialStores ==
    { <<[_id |-> 1, from |-> "p1", createdAt |-> 0, updatedAt |-> 0]>> }

Started ==
    /\ conversations \in InitialStores
    /\ messages = <<>>
    /\ sent = <<>>
    /\ client = 0
    /\ db = 0
    /\ clock = 1
    /\ returnsValue \in BOOLEAN
    /\ sockets = <<>>
    /\ nextTick = 0
    /\ starts = <<[origin |-> "main", pc |-> "auth"]>>
    /\ exited = FALSE
    /\ errors = 0
    /\ restartCloses = 0
    /\ credsSaved = 0
    /\ handlers = <<>>
    /\ inputs = 0
    /\ failures = 0

Init == Started /\ extraction = Idle

-----------------------------------------------------------------------------
(* startWhatsApp and the connection supervisor.                            *)

NewSocket ==
    [connection |-> "connecting", auth |-> "auth",
     on |-> {"creds.update", "connection.update", "messages.upsert"}]

\* await useMultiFileAuthState("auth") resolved
StartAuthOk(i) ==
    /\ ~exited
    /\ starts[i].pc = "auth"
    /\ starts' = [starts EXCEPT ![i].pc = "version"]
    /\ UNCHANGED <<store, mongo, clock, returnsValue, sockets, nextTick,
                   exited, errors, restartCloses, credsSaved, handlers,
                   inputs, failures, extraction>>

\* await fetchLatestBaileysVersion() resolved: makeWASocket, handlers attached
StartVersionOk(i) ==
    /\ ~exited
    /\ starts[i].pc = "version"
    /\ starts' = [starts EXCEPT ![i].pc = "returned"]
    /\ sockets' = Append(sockets, NewSocket)
    /\ UNCHANGED <<store, mongo, clock, returnsValue, nextTick, exited,
                   errors, restartCloses, credsSaved, handlers, inputs,
                   failures, extraction>>

\* variant: the restart is called without .catch, and its rejection ends the
\* process like the one of the first start
StartRejectAlwaysExits(i) ==
    /\ ~exited
    /\ starts[i].pc \in {"auth", "version"}
    /\ failures < MaxFailures
    /\ failures' = failures + 1
    /\ starts' = [starts EXCEPT ![i].pc = "threw"]
    /\ errors' = errors + 1
    /\ exited' = TRUE
    /\ UNCHANGED <<store, mongo, clock, returnsValue, sockets, nextTick,
                   restartCloses, credsSaved, handlers, inputs, extraction>>

\* one of the two awaits of startWhatsApp rejected: main() logs and exits,
\* the nextTick callback logs through .catch(console.error)
StartReject(i) ==
    /\ ~exited
    /\ starts[i].pc \in {"auth", "version"}
    /\ failures < MaxFailures
    /\ failures' = failures + 1
    /\ starts' = [starts EXCEPT ![i].pc = "threw"]
    /\ errors' = errors + 1
    /\ exited' = (starts[i].origin = "main")
    /\ UNCHANGED <<store, mongo, clock, returnsValue, sockets, nextTick,
                   restartCloses, credsSaved, handlers, inputs, extraction>>

\* the callback queued by process.nextTick runs: startWhatsApp() is called
RunNextTick ==
    /\ ~exited
    /\ nextTick > 0
    /\ nextTick' = nextTick - 1
    /\ starts' = Append(starts, [origin |-> "restart", pc |-> "auth"])
    /\ UNCHANGED <<store, mongo, clock, returnsValue, sockets, exited,
                   errors, restartCloses, credsSaved, handlers, inputs,
                   failures, extraction>>

\* variant: every close restarts
ShouldRestartOnAnyClose(connection, statusCode) ==
    connection = "close"

\* variant: the policy of the earlier draft, restart unless logged out
ShouldRestartUnlessLoggedOut(connection, statusCode) ==
    connection = "close" /\ statusCode # LoggedOut

\* the first connection.update handler restarts on a close with code 515
ShouldRestart(connection, statusCode) ==
    connection = "close" /\ statusCode = RestartRequired

\* lastDisconnect?.error?.output?.statusCode, 0 when absent
StatusCodes == {0, RestartRequired, LoggedOut, 428}

\* connection.update payloads: a close with or without a code, the two other
\* statuses, and the QR update that carries no status
ConnectionEvents ==
    { [connection |-> "close", statusCode |-> c, qr |-> FALSE] :
        c \in StatusCodes }
    \cup { [connection |-> "open", statusCode |-> 0, qr |-> FALSE],
           [connection |-> "connecting", statusCode |-> 0, qr |-> FALSE],
           [connection |-> Null, statusCode |-> 0, qr |-> TRUE] }

\* variant: the close handler of the earlier draft, which calls
\* startWhatsApp() itself
ConnectionUpdateStartsInside(s, connection, statusCode, qr) ==
    /\ ~exited
    /\ inputs < MaxInputs
    /\ inputs' = inputs + 1
    /\ sockets' = IF connection = Null THEN sockets
                  ELSE [sockets EXCEPT ![s].connection = connection]
    /\ starts' = IF ShouldRestart(connection, statusCode)
                 THEN Append(starts, [origin |-> "restart", pc |-> "auth"])
                 ELSE starts
    /\ restartCloses' = IF connection = "close" /\ statusCode = 515
                        THEN restartCloses + 1 ELSE restartCloses
    /\ UNCHANGED <<store, mongo, clock, returnsValue, nextTick, exited,
                   errors, credsSaved, handlers, failures, extraction>>

\* socket s emits connection.update: both handlers run to completion (they
\* await nothing); what they print with console.log is not kept
ConnectionUpdate(s, connection, statusCode, qr) ==
    /\ ~exited
    /\ inputs < MaxInputs
    /\ inputs' = inputs + 1
    /\ sockets' = IF connection = Null THEN sockets
                  ELSE [sockets EXCEPT ![s].connection = connection]
    /\ nextTick' = IF ShouldRestart(connection, statusCode)
                   THEN nextTick + 1 ELSE nextTick
    /\ restartCloses' = IF connection = "close" /\ statusCode = 515
                        THEN restartCloses + 1 ELSE restartCloses
    /\ UNCHANGED <<store, mongo, clock, returnsValue, starts, exited, errors,
                   credsSaved, handlers, failures, extraction>>

\* socket s emits creds.update: saveCreds is called
CredsUpdate(s) ==
    /\ ~exited
    /\ inputs < MaxInputs
    /\ inputs' = inputs + 1
    /\ credsSaved' = credsSaved + 1
    /\ UNCHANGED <<store, mongo, clock, returnsValue, sockets, nextTick,
                   starts, exited, errors, restartCloses, handlers, failures,
                   extraction>>

-----------------------------------------------------------------------------
(* The messages.upsert handler.  One record per invocation: the socket of  *)
(* the closure, the batch, the loop index, the await it is suspended at    *)
(* and its locals; `outcomes` records how each event of the batch ended.   *)
(* A step runs the handler from where it was resumed to its next await.    *)
(* `replaced` notes whether, at the call, the socket had reported 'close'  *)
(* and a later socket existed; `concurrent` holds the participants of whom  *)
(* the handler began to store an event while another handler was in the    *)
(* middle of storing one of the same participant.  The handler itself      *)
(* looks at neither.                                                       *)

NewHandler(s, type, batch) ==
    [sock |-> s, type |-> type, messages |-> batch, idx |-> 1,
     pc |-> IF ShouldProcess(type) THEN "loop" ELSE "done",
     timestamp |-> 0, now |-> 0, conversation |-> 0, outcomes |-> <<>>,
     replaced |-> sockets[s].connection = "close" /\ s < Len(sockets),
     concurrent |-> {}]

\* `continue`, or the end of the loop body
Continue(hr, outcome) ==
    [hr EXCEPT !.idx = hr.idx + 1, !.pc = "loop",
               !.timestamp = 0, !.now = 0, !.conversation = 0,
               !.outcomes = Append(hr.outcomes, outcome)]

\* variant: the try block around the loop, an error ends the batch
CaughtEndsBatch(hr) ==
    [hr EXCEPT !.pc = "done", !.outcomes = Append(hr.outcomes, "error")]

\* variant: the catch block throws again and the handler ends in the error
CaughtRethrows(hr) == [hr EXCEPT !.pc = "threw"]

\* the catch block: log, then the next event
Caught(hr) == Continue(hr, "error")

\* variant: the marker of the log line is stored
StoredTextMarker(text) == IF text # Null THEN text ELSE "<non-text>"

\* text: typeof text === "string" ? text : null
StoredText(text) == IF text # Null THEN text ELSE Null

\* the loop from its head: skipped events are passed, the run stops at the
\* send of a '/ping', at the call of getDb, or at the end of the batch
RECURSIVE RunLoop(_)
RunLoop(hr) ==
    IF hr.pc # "loop" THEN hr
    ELSE IF hr.idx > Len(hr.messages) THEN [hr EXCEPT !.pc = "done"]
    ELSE IF SkipsEvent(hr.messages[hr.idx])
         THEN RunLoop(Continue(hr, "skipped"))
    ELSE IF IsPing(ExtractText(hr.messages[hr.idx]))
         THEN [hr EXCEPT !.pc = "send"]
    ELSE [hr EXCEPT !.pc = "getDb"]

\* the awaits between the timestamp of an event and its insertOne
Storing ==
    {"getDb", "connect", "upsert", "upsertInsert", "findOne", "insert"}

\* another handler is in the middle of storing an event of the participant
\* whose event r is about to store
OthersStoring(r) ==
    \E h \in 1..Len(handlers) :
        /\ handlers[h].messages # r.messages
        /\ handlers[h].pc \in Storing
        /\ handlers[h].messages[handlers[h].idx].remoteJid
             = r.messages[r.idx].remoteJid

\* what a read of the wall clock can give: the value of the last read (two
\* reads within one millisecond) or a later one
Now == {clock, clock + 1}

\* the handler at its next await.  Before `await getDb()` the timestamp is
\* taken (lines 113-115), from the event or, when it has none, from the
\* wall clock, which shows t.  getDb() is an async function: with db set it
\* returns a settled promise and the handler still suspends at the await;
\* with db null it creates a MongoClient and suspends in client.connect()
Resumed(hr, t) ==
    LET r == RunLoop(hr) IN
    IF r.pc # "getDb" THEN r
    ELSE [r EXCEPT !.pc = IF db # 0 THEN "getDb" ELSE "connect",
                   !.timestamp = Timestamp(r.messages[r.idx], t),
                   !.concurrent =
                       IF OthersStoring(r)
                       THEN r.concurrent \cup {r.messages[r.idx].remoteJid}
                       ELSE r.concurrent]

\* what the run up to that await did to the module: the wall clock was read
\* for an event without messageTimestamp, and a MongoClient was created
\* when getDb() found db null
Entered(hr, r, t) ==
    /\ clock' = IF /\ hr.pc = "loop" /\ r.pc \in {"getDb", "connect"}
                   /\ r.messages[r.idx].messageTimestamp = 0
                THEN t ELSE clock
    /\ client' = IF hr.pc = "loop" /\ r.pc = "connect" THEN client + 1 ELSE client

\* variant: the loop walks the batch from its last event to its first
DeliverReversed(s, type, shapes) ==
    LET n == Len(shapes)
        hr == NewHandler(s, type,
                  [k \in 1..n |-> WithId(shapes[n + 1 - k], inputs + n + 1 - k)])
    IN
    /\ ~exited
    /\ inputs + 1 + Len(shapes) <= MaxInputs
    /\ inputs' = inputs + 1 + Len(shapes)
    /\ \E t \in Now :
          /\ handlers' = Append(handlers, Resumed(hr, t))
          /\ Entered(hr, Resumed(hr, t), t)
    /\ UNCHANGED <<store, db, returnsValue, supervisor, errors, failures,
                   extraction>>

\* socket s emits messages.upsert with a batch of fresh events: the handler
\* runs to its first await
Deliver(s, type, shapes) ==
    LET hr == NewHandler(s, type,
                  [k \in 1..Len(shapes) |-> WithId(shapes[k], inputs + k)])
    IN
    /\ ~exited
    /\ inputs + 1 + Len(shapes) <= MaxInputs
    /\ inputs' = inputs + 1 + Len(shapes)
    /\ \E t \in Now :
          /\ handlers' = Append(handlers, Resumed(hr, t))
          /\ Entered(hr, Resumed(hr, t), t)
    /\ UNCHANGED <<store, db, returnsValue, supervisor, errors, failures,
                   extraction>>

\* await socket.sendMessage(remoteJid, { text: "pong" }) resolved
SendOk(h) ==
    LET hr == handlers[h]
        msg == hr.messages[hr.idx]
        next == Continue(hr, "pong") IN
    /\ ~exited
    /\ hr.pc = "send"
    /\ sent' = Append(sent, [sock |-> hr.sock, jid |-> msg.remoteJid,
                             text |-> "pong", event |-> msg.id])
    /\ \E t \in Now :
          /\ handlers' = [handlers EXCEPT ![h] = Resumed(next, t)]
          /\ Entered(next, Resumed(next, t), t)
    /\ UNCHANGED <<conversations, messages, db, returnsValue, supervisor,
                   errors, inputs, failures, extraction>>

\* await client.connect() resolved inside getDb: db = client.db(name) with
\* the module's current client, and getDb returns; its caller is resumed in
\* a later job
ConnectOk(h) ==
    LET hr == handlers[h] IN
    /\ ~exited
    /\ hr.pc = "connect"
    /\ db' = client
    /\ handlers' = [handlers EXCEPT ![h].pc = "getDb"]
    /\ UNCHANGED <<store, client, clock, returnsValue, supervisor, errors,
                   inputs, failures, extraction>>

\* the handler is resumed from `await getDb()`: `now` is read from the wall
\* clock and findOneAndUpdate is sent
GetDbOk(h) ==
    LET hr == handlers[h] IN
    /\ ~exited
    /\ hr.pc = "getDb"
    /\ \E t \in Now :
          /\ handlers' = [handlers EXCEPT ![h].pc = "upsert", ![h].now = t]
          /\ clock' = t
    /\ UNCHANGED <<store, mongo, returnsValue, supervisor, errors, inputs,
                   failures, extraction>>

\* findOneAndUpdate in the store, first half: the filter { from } matches no
\* document, so the upsert will insert.  No unique index on `from` is
\* created anywhere, so nothing makes the later insert fail or retry when
\* another writer has inserted the same `from` in between
FindOneAndUpdateNoMatch(h) ==
    LET hr == handlers[h]
        jid == hr.messages[hr.idx].remoteJid IN
    /\ ~exited
    /\ hr.pc = "upsert"
    /\ Matching(conversations, jid) = {}
    /\ handlers' = [handlers EXCEPT ![h].pc = "upsertInsert"]
    /\ UNCHANGED <<store, mongo, clock, returnsValue, supervisor, errors,
                   inputs, failures, extraction>>

\* await conversations.findOneAndUpdate(...) resolved: the matching document
\* was updated, or the document of the upsert was inserted.  The document
\* written is taken from `.value` when the driver returns a result object
\* with one, and looked up with findOne otherwise
FindOneAndUpdateOk(h) ==
    LET hr == handlers[h]
        jid == hr.messages[hr.idx].remoteJid
        matched == hr.pc = "upsert"
        after == IF matched THEN UpdateMatched(conversations, jid, hr.now)
                 ELSE InsertUpserted(conversations, jid, hr.now)
        value == IF matched THEN FindOne(conversations, jid)
                 ELSE Len(conversations) + 1 IN
    /\ ~exited
    /\ \/ hr.pc = "upsert" /\ Matching(conversations, jid) # {}
       \/ hr.pc = "upsertInsert"
    /\ conversations' = after
    /\ handlers' = IF returnsValue
                   THEN [handlers EXCEPT ![h].pc = "insert",
                                         ![h].conversation = value]
                   ELSE [handlers EXCEPT ![h].pc = "findOne"]
    /\ UNCHANGED <<messages, sent, mongo, clock, returnsValue, supervisor,
                   errors, inputs, failures, extraction>>

\* await conversations.findOne({ from: remoteJid }) resolved; no document
\* makes the handler throw
FindOneOk(h) ==
    LET hr == handlers[h]
        found == FindOne(conversations, hr.messages[hr.idx].remoteJid)
        next == IF found = 0 THEN Caught(hr)
                ELSE [hr EXCEPT !.pc = "insert", !.conversation = found] IN
    /\ ~exited
    /\ hr.pc = "findOne"
    /\ \E t \in Now :
          /\ handlers' = [handlers EXCEPT ![h] = Resumed(next, t)]
          /\ Entered(next, Resumed(next, t), t)
    /\ errors' = IF found = 0 THEN errors + 1 ELSE errors
    /\ UNCHANGED <<store, db, returnsValue, supervisor, inputs, failures,
                   extraction>>

\* insertOne: the document has no _id, the driver gives it a fresh one and
\* the collection gains one document
InsertOne(msgs, doc) == Append(msgs, [_id |-> Len(msgs) + 1] @@ doc)

\* await messages.insertOne(...) resolved
InsertOneOk(h) ==
    LET hr == handlers[h]
        msg == hr.messages[hr.idx]
        next == Continue(hr, "persisted") IN
    /\ ~exited
    /\ hr.pc = "insert"
    /\ messages' = InsertOne(messages,
          MessageDocument(hr.conversation, StoredText(ExtractText(msg)), msg,
                          hr.timestamp, hr.now))
    /\ \E t \in Now :
          /\ handlers' = [handlers EXCEPT ![h] = Resumed(next, t)]
          /\ Entered(next, Resumed(next, t), t)
    /\ UNCHANGED <<conversations, sent, db, returnsValue, supervisor, errors,
                   inputs, failures, extraction>>

\* the awaited calls that can reject; at "getDb" the promise is settled
Awaiting == {"send", "connect", "upsert", "upsertInsert", "findOne", "insert"}

\* the awaited call rejected: the catch block logs and the loop goes on
Reject(h) ==
    LET hr == handlers[h]
        next == Caught(hr) IN
    /\ ~exited
    /\ hr.pc \in Awaiting
    /\ failures < MaxFailures
    /\ failures' = failures + 1
    /\ \E t \in Now :
          /\ handlers' = [handlers EXCEPT ![h] = Resumed(next, t)]
          /\ Entered(next, Resumed(next, t), t)
    /\ errors' = errors + 1
    /\ UNCHANGED <<store, db, returnsValue, supervisor, inputs, extraction>>

Next ==
    \/ \E i \in 1..Len(starts) : StartAuthOk(i)
    \/ \E i \in 1..Len(starts) : StartVersionOk(i)
    \/ \E i \in 1..Len(starts) : StartReject(i)
    \/ RunNextTick
    \/ \E s \in 1..Len(sockets), u \in ConnectionEvents :
          ConnectionUpdate(s, u.connection, u.statusCode, u.qr)
    \/ \E s \in 1..Len(sockets) : CredsUpdate(s)
    \/ \E s \in 1..Len(sockets), type \in BatchTypes,
          n \in 1..(MaxInputs - inputs - 1) :
          \E b \in [1..n -> EventShapes] : Deliver(s, type, b)
    \/ \E h \in 1..Len(handlers) : SendOk(h)
    \/ \E h \in 1..Len(handlers) : ConnectOk(h)
    \/ \E h \in 1..Len(handlers) : GetDbOk(h)
    \/ \E h \in 1..Len(handlers) : FindOneAndUpdateNoMatch(h)
    \/ \E h \in 1..Len(handlers) : FindOneAndUpdateOk(h)
    \/ \E h \in 1..Len(handlers) : FindOneOk(h)
    \/ \E h \in 1..Len(handlers) : InsertOneOk(h)
    \/ \E h \in 1..Len(handlers) : Reject(h)

Spec == Init /\ [][Next]_vars

\* the call handler h awaits resolves or rejects
Settle(h) ==
    /\ h <= Len(handlers)
    /\ \/ SendOk(h) \/ ConnectOk(h) \/ GetDbOk(h)
       \/ FindOneAndUpdateNoMatch(h) \/ FindOneAndUpdateOk(h)
       \/ FindOneOk(h) \/ InsertOneOk(h) \/ Reject(h)

\* a batch costs two inputs at least
MaxHandlers == MaxInputs \div 2

\* every awaited call of every handler is settled in the end
FairSpec == Spec /\ \A h \in 1..MaxHandlers : WF_vars(Settle(h))

-----------------------------------------------------------------------------
(* The text extraction of lines 100-105 on its own: every combination of   *)
(* absent, empty and non-empty values of the four fields.                  *)

TextValues == {Null, "", "hello", "/ping"}

TextInputs ==
    { Evt(FALSE, TRUE, "p1", c, i, v, d, 1) :
        c \in TextValues, i \in TextValues, v \in TextValues, d \in TextValues }

InitText ==
    /\ Started
    /\ extraction \in { [msg |-> m, text |-> Null, done |-> FALSE] :
                          m \in TextInputs }

Extract ==
    /\ ~extraction.done
    /\ extraction' = [extraction EXCEPT !.text = ExtractText(extraction.msg),
                                        !.done = TRUE]
    /\ UNCHANGED <<store, mongo, clock, returnsValue, supervisor, errors,
                   handlers, inputs, failures>>

NextText == Extract

SpecText == InitText /\ [][NextText]_vars

-----------------------------------------------------------------------------
(* The two store calls of lines 124-131 and 143-150 on their own, each     *)
(* issued twice with the same arguments: the upsert for a known and for a  *)
(* new participant, the insert for every shape of record the handler       *)
(* builds.                                                                 *)

MaxRetries == 2

\* the events that reach insertOne
StoredShapes ==
    { e \in EventShapes : ~SkipsEvent(e) /\ ~IsPing(ExtractText(e)) }

RetryRecords ==
    { MessageDocument(c, StoredText(ExtractText(WithId(e, 1))), WithId(e, 1),
                      t, now) :
        c \in 1..2, e \in StoredShapes, t \in 1..3, now \in 1..2 }

RetryCalls ==
    { [op |-> "upsert", jid |-> P, doc |-> Null, count |-> 0,
       returned |-> <<>>, after |-> <<>>] : P \in Participants }
    \cup { [op |-> "insert", jid |-> Null, doc |-> d, count |-> 0,
            returned |-> <<>>, after |-> <<>>] : d \in RetryRecords }

InitRetry ==
    /\ Started
    /\ extraction \in RetryCalls

\* findOneAndUpdate with upsert, issued again with the `now` of its time
RetryUpsert ==
    /\ extraction.op = "upsert"
    /\ extraction.count < MaxRetries
    /\ \E t \in Now :
          LET after == UpsertConversation(conversations, extraction.jid, t) IN
          /\ conversations' = after
          /\ clock' = t
          /\ extraction' = [extraction EXCEPT
                !.count = extraction.count + 1,
                !.returned = Append(extraction.returned,
                                    FindOne(after, extraction.jid)),
                !.after = Append(extraction.after, after)]
    /\ UNCHANGED <<messages, sent, mongo, returnsValue, supervisor, errors,
                   handlers, inputs, failures>>

\* insertOne, issued again with the same record
RetryInsert ==
    LET after == InsertOne(messages, extraction.doc) IN
    /\ extraction.op = "insert"
    /\ extraction.count < MaxRetries
    /\ messages' = after
    /\ extraction' = [extraction EXCEPT
          !.count = extraction.count + 1,
          !.returned = Append(extraction.returned, Len(after)),
          !.after = Append(extraction.after, after)]
    /\ UNCHANGED <<conversations, sent, mongo, clock, returnsValue,
                   supervisor, errors, handlers, inputs, failures>>

NextRetry == RetryUpsert \/ RetryInsert

SpecRetry == InitRetry /\ [][NextRetry]_vars

-----------------------------------------------------------------------------
(* What the claims speak of.  The classification of an event below is the  *)
(* specification's, written from the event alone.                          *)

Handlers == 1..Len(handlers)

Slots == { hk \in Handlers \X (1..MaxInputs) :
             hk[2] <= Len(handlers[hk[1]].messages) }

Event(hk) == handlers[hk[1]].messages[hk[2]]

Live(hk) == handlers[hk[1]].type = "notify"

Processed(hk) == hk[2] <= Len(handlers[hk[1]].outcomes)

Outcome(hk) == handlers[hk[1]].outcomes[hk[2]]

MessagesOf(e) == { i \in 1..Len(messages) : messages[i].rawPayload.id = e.id }

SendsOf(e) == { i \in 1..Len(sent) : sent[i].event = e.id }

NonEmpty(v) == v # Null /\ v # ""

\* the first non-empty value among plain text and the three captions
FirstNonEmpty(e) ==
    IF NonEmpty(e.conversation) THEN e.conversation
    ELSE IF NonEmpty(e.imageCaption) THEN e.imageCaption
    ELSE IF NonEmpty(e.videoCaption) THEN e.videoCaption
    ELSE IF NonEmpty(e.documentCaption) THEN e.documentCaption
    ELSE Null

Qualifying(e) == ~e.fromMe /\ e.message /\ e.remoteJid # Null

Malformed(e) == ~e.fromMe /\ e.message /\ e.remoteJid = Null

PingEvent(e) == Qualifying(e) /\ FirstNonEmpty(e) = "/ping"

Persistable(e) == Qualifying(e) /\ FirstNonEmpty(e) # "/ping"

AllDone == \A h \in Handlers : handlers[h].pc = "done"

NoErrors == \A hk \in Slots : Processed(hk) => Outcome(hk) # "error"

ErrorOutcomes == { hk \in Slots : Processed(hk) /\ Outcome(hk) = "error" }

\* handler h is inside the processing of an event
Current(h) == handlers[h].messages[handlers[h].idx]

InEvent(h) ==
    /\ handlers[h].pc # "done"
    /\ handlers[h].idx <= Len(handlers[h].messages)

Stepped(h) == handlers'[h] # handlers[h]

-----------------------------------------------------------------------------
LiveEventsFrom(P) ==
    { hk \in Slots : Live(hk) /\ Persistable(Event(hk))
                     /\ Event(hk).remoteJid = P }

\* the events of P were stored one after the other: no handler began to
\* store one while another handler was storing one
InSequence(P) == \A h \in Handlers : P \notin handlers[h].concurrent

\* C1: once N >= 1 qualifying events from P have been processed in sequence
\* with every store call succeeding, there is exactly one Conversation with
\* from = P and exactly N Messages reference it, whether P was known at the
\* start or not.
C1_OneConversationNMessages ==
    \A P \in Participants :
        (AllDone /\ NoErrors /\ InSequence(P) /\ LiveEventsFrom(P) # {}) =>
            /\ Cardinality(Matching(conversations, P)) = 1
            /\ Cardinality({ i \in 1..Len(messages) :
                   messages[i].conversationId = FindOne(conversations, P) })
               = Cardinality(LiveEventsFrom(P))

\* one event of the known p1 and two of the new p2, all stored
C1_Witness ==
    /\ AllDone /\ NoErrors
    /\ InSequence("p1") /\ InSequence("p2")
    /\ Cardinality(LiveEventsFrom("p1")) = 1
    /\ Cardinality(LiveEventsFrom("p2")) = 2
    /\ conversations[1].from = "p1" /\ conversations[1].createdAt = 0
    /\ Len(messages) = 3

\* the upsert of handler h for an event of P has returned
PastUpsert(h, P) ==
    \/ \E hk \in Slots : /\ hk[1] = h /\ Processed(hk)
                         /\ Outcome(hk) = "persisted"
                         /\ Event(hk).remoteJid = P
    \/ /\ InEvent(h)
       /\ handlers[h].pc \in {"findOne", "insert"}
       /\ Current(h).remoteJid = P

\* C2: when two handler invocations each take an event of the same P through
\* the upsert, in any interleaving of their store calls, there is exactly one
\* Conversation with from = P and the Messages of both reference it.
C2_OneConversationUnderRace ==
    \A h1 \in Handlers, h2 \in Handlers, P \in Participants :
        (h1 # h2 /\ PastUpsert(h1, P) /\ PastUpsert(h2, P)) =>
            /\ Cardinality(Matching(conversations, P)) = 1
            /\ \A h \in {h1, h2} :
                  handlers[h].pc = "insert" /\ Current(h).remoteJid = P =>
                      handlers[h].conversation = FindOne(conversations, P)
            /\ \A hk \in Slots :
                  (hk[1] \in {h1, h2} /\ Event(hk).remoteJid = P) =>
                      \A i \in MessagesOf(Event(hk)) :
                          messages[i].conversationId = FindOne(conversations, P)

C3_State ==
    \A hk \in Slots :
        (Live(hk) /\ PingEvent(Event(hk))) =>
            /\ MessagesOf(Event(hk)) = {}
            /\ Cardinality(SendsOf(Event(hk))) <= 1
            /\ \A i \in SendsOf(Event(hk)) :
                  sent[i].text = "pong" /\ sent[i].jid = Event(hk).remoteJid
            /\ Processed(hk) =>
                  /\ Outcome(hk) \in {"pong", "error"}
                  /\ Outcome(hk) = "pong" <=>
                         Cardinality(SendsOf(Event(hk))) = 1

C3_Step ==
    \A h \in Handlers :
        (InEvent(h) /\ PingEvent(Current(h)) /\ Stepped(h)) =>
            UNCHANGED <<conversations, messages>>

\* C3: a live, qualifying event whose text is '/ping' is answered by exactly
\* one send, of 'pong' to the event's participant (none if the send itself
\* fails), and its processing creates or changes no Conversation or Message.
C3_PingAnsweredNotStored == []C3_State /\ [][C3_Step]_vars

\* a '/ping' was answered
C3_Witness ==
    \E hk \in Slots :
        /\ Live(hk) /\ PingEvent(Event(hk))
        /\ Processed(hk) /\ Outcome(hk) = "pong"
        /\ Cardinality(SendsOf(Event(hk))) = 1

C4_State ==
    \A hk \in Slots :
        Event(hk).fromMe =>
            /\ MessagesOf(Event(hk)) = {}
            /\ SendsOf(Event(hk)) = {}
            /\ Processed(hk) => Outcome(hk) = "skipped"

C4_Step ==
    \A h \in Handlers :
        (Stepped(h) /\ store' # store) =>
            InEvent(h) /\ ~Current(h).fromMe

\* C4: an event with fromMe = true, whatever its content, leads to no
\* Message and no send, and no step that changes the store is taken on its
\* behalf.
C4_SelfEchoIgnored == []C4_State /\ [][C4_Step]_vars

\* a self echo with the text '/ping' went through a live batch
C4_Witness ==
    \E hk \in Slots :
        /\ Live(hk) /\ Processed(hk)
        /\ Event(hk).fromMe /\ Event(hk).conversation = "/ping"

\* C5: the extracted text is the first non-empty value among plain text,
\* image, video and document caption, and null when none is non-empty.
C5_FirstNonEmptyText ==
    extraction.done => extraction.text = FirstNonEmpty(extraction.msg)

NoText(e) ==
    /\ e.conversation = Null /\ e.imageCaption = Null
    /\ e.videoCaption = Null /\ e.documentCaption = Null

\* C6: a qualifying event with content but neither plain text nor caption
\* is stored as exactly one Message, with text null, direction 'incoming' and
\* the event itself as raw payload.
C6_NonTextStoredWithNull ==
    \A hk \in Slots :
        (Live(hk) /\ Qualifying(Event(hk)) /\ NoText(Event(hk))) =>
            /\ Cardinality(MessagesOf(Event(hk))) <= 1
            /\ \A i \in MessagesOf(Event(hk)) :
                  /\ messages[i].text = Null
                  /\ messages[i].direction = "incoming"
                  /\ messages[i].rawPayload = Event(hk)
            /\ Processed(hk) =>
                  /\ Outcome(hk) \in {"persisted", "error"}
                  /\ Outcome(hk) = "persisted" <=>
                         Cardinality(MessagesOf(Event(hk))) = 1

\* an event without any text was stored
C6_Witness ==
    \E hk \in Slots :
        /\ Live(hk) /\ Qualifying(Event(hk)) /\ NoText(Event(hk))
        /\ Processed(hk) /\ Outcome(hk) = "persisted"
        /\ \E i \in MessagesOf(Event(hk)) : messages[i].text = Null

SlotsOf(h) == { hk \in Slots : hk[1] = h }

MessagesOfBatch(h) ==
    { i \in 1..Len(messages) :
        \E hk \in SlotsOf(h) : messages[i].rawPayload.id = Event(hk).id }

\* C7: in a live batch an event without participant identifier yields no
\* Message, at any position, and each well-formed qualifying event before or
\* after it yields exactly one; one malformed and two well-formed events
\* yield exactly two Messages.
C7_MalformedSkippedOthersStored ==
    \A h \in Handlers :
        handlers[h].type = "notify" =>
            /\ \A hk \in SlotsOf(h) :
                  /\ Malformed(Event(hk)) =>
                        /\ MessagesOf(Event(hk)) = {}
                        /\ Processed(hk) => Outcome(hk) = "skipped"
                  /\ (Persistable(Event(hk)) /\ Processed(hk)
                        /\ Outcome(hk) # "error") =>
                        Cardinality(MessagesOf(Event(hk))) = 1
            /\ ( /\ handlers[h].pc = "done"
                 /\ \A hk \in SlotsOf(h) : Outcome(hk) # "error"
                 /\ Cardinality({ hk \in SlotsOf(h) : Malformed(Event(hk)) }) = 1
                 /\ Cardinality({ hk \in SlotsOf(h) : Persistable(Event(hk)) }) = 2
                 /\ Len(handlers[h].messages) = 3 ) =>
                    Cardinality(MessagesOfBatch(h)) = 2

\* a finished batch with the malformed event between two well-formed ones
C7_Witness ==
    \E h \in Handlers :
        /\ handlers[h].pc = "done" /\ handlers[h].type = "notify"
        /\ Len(handlers[h].messages) = 3
        /\ Persistable(handlers[h].messages[1])
        /\ Malformed(handlers[h].messages[2])
        /\ Persistable(handlers[h].messages[3])
        /\ Cardinality(MessagesOfBatch(h)) = 2

C8_State ==
    /\ \A h \in Handlers :
          handlers[h].type = "notify" =>
              /\ Len(handlers[h].outcomes) = handlers[h].idx - 1
              /\ handlers[h].pc = "done" =>
                    Len(handlers[h].outcomes) = Len(handlers[h].messages)
    /\ \A hk \in Slots :
          Processed(hk) =>
              /\ ~Qualifying(Event(hk)) => Outcome(hk) = "skipped"
              /\ PingEvent(Event(hk)) => Outcome(hk) \in {"pong", "error"}
              /\ Persistable(Event(hk)) =>
                    Outcome(hk) \in {"persisted", "error"}
    /\ Cardinality(ErrorOutcomes)
         + Cardinality({ i \in 1..Len(starts) : starts[i].pc = "threw" })
       = failures
    /\ errors = failures

C8_Step ==
    \A h \in Handlers :
        (handlers[h].pc \in Awaiting /\ failures' = failures + 1 /\ Stepped(h))
        => /\ handlers'[h].idx > handlers[h].idx
           /\ SubSeq(handlers'[h].outcomes, 1, handlers[h].idx)
                = Append(handlers[h].outcomes, "error")
           /\ errors' = errors + 1
           /\ ~exited'
           /\ UNCHANGED store

\* C8: a rejected await inside the processing of one event (connect, upsert,
\* findOne, insert or send) is caught and logged, stays inside the handler,
\* costs that event alone and leaves every later event of the batch to be
\* processed as its own content demands.
C8_FailureIsolated == []C8_State /\ [][C8_Step]_vars

\* the first event of a batch failed, the second was stored
C8_Witness ==
    \E h \in Handlers :
        /\ handlers[h].pc = "done"
        /\ Len(handlers[h].outcomes) >= 2
        /\ handlers[h].outcomes[1] = "error"
        /\ handlers[h].outcomes[2] = "persisted"

\* C9: each 'close' event with code 515 leads to exactly one startWhatsApp
\* call, hence one new socket once that call has returned, and a close with
\* any other code, or none, leads to no call and no socket.
C9_RestartOnlyOn515 ==
    /\ Len(starts) + nextTick = 1 + restartCloses
    /\ Len(sockets)
       = Cardinality({ i \in 1..Len(starts) : starts[i].pc = "returned" })
    /\ (nextTick = 0 /\ \A i \in 1..Len(starts) : starts[i].pc = "returned")
          => Len(sockets) = 1 + restartCloses

\* two closes, one with 515 and one without: two sockets in all
C9_Witness ==
    /\ restartCloses = 1
    /\ nextTick = 0
    /\ \A i \in 1..Len(starts) : starts[i].pc = "returned"
    /\ Len(sockets) = 2
    /\ sockets[1].connection = "close"
    /\ sockets[2].connection = "close"

\* C10: a batch whose kind is not 'notify' leaves no trace, whatever it
\* holds: no Conversation, no Message, no send.
C10_ReplayBatchIgnored ==
    /\ \A h \in Handlers :
          handlers[h].type # "notify" =>
              /\ handlers[h].pc = "done"
              /\ handlers[h].outcomes = <<>>
              /\ \A hk \in SlotsOf(h) :
                    MessagesOf(Event(hk)) = {} /\ SendsOf(Event(hk)) = {}
    /\ (\A h \in Handlers : handlers[h].type # "notify") =>
          /\ messages = <<>>
          /\ sent = <<>>
          /\ conversations \in InitialStores

\* a replay batch with a '/ping' and a plain text was handled
C10_Witness ==
    \E h \in Handlers :
        /\ handlers[h].type # "notify"
        /\ \E hk \in SlotsOf(h) : PingEvent(Event(hk))
        /\ \E hk \in SlotsOf(h) : Persistable(Event(hk))
        /\ Len(handlers) = 1

\* C11: every stored Message carries the id of a Conversation that exists,
\* the one of the event's participant, in every reachable state, whatever
\* the interleaving and the failures; and a Message is appended only by a
\* handler whose upsert for the same event has returned that Conversation.
C11_State ==
    \A i \in 1..Len(messages) :
        /\ \E c \in 1..Len(conversations) :
              /\ conversations[c]._id = messages[i].conversationId
              /\ conversations[c].from = messages[i].rawPayload.remoteJid
        /\ \E hk \in Slots :
              /\ Live(hk) /\ Event(hk) = messages[i].rawPayload
              /\ Processed(hk) /\ Outcome(hk) = "persisted"

C11_Step ==
    messages' # messages =>
        \E h \in Handlers :
            /\ handlers[h].pc = "insert"
            /\ handlers[h].conversation # 0
            /\ \E c \in 1..Len(conversations) :
                  /\ conversations[c]._id = handlers[h].conversation
                  /\ conversations[c].from = Current(h).remoteJid
            /\ messages' = Append(messages, messages'[Len(messages')])
            /\ messages'[Len(messages')].conversationId
                 = handlers[h].conversation
            /\ messages'[Len(messages')].rawPayload = Current(h)

C11_MessageOwnerExists == []C11_State /\ [][C11_Step]_vars

\* a Message of the new p2 is stored although another store call has failed
C11_Witness ==
    /\ failures = 1
    /\ \E i \in 1..Len(messages) :
          /\ messages[i].rawPayload.remoteJid = "p2"
          /\ conversations[messages[i].conversationId].from = "p2"
          /\ conversations[messages[i].conversationId].createdAt > 0

\* C12: both store operations are idempotent under retry: the upsert issued
\* twice for one participant returns the same ConversationId and leaves one
\* Conversation for it, and the append issued twice with the same
\* conversation id and the same record leaves the Messages that one append
\* leaves.
C12_IdempotentUnderRetry ==
    extraction.count = MaxRetries =>
        /\ extraction.op = "upsert" =>
              /\ extraction.returned[1] = extraction.returned[2]
              /\ Cardinality(Matching(conversations, extraction.jid)) = 1
              /\ Len(extraction.after[1]) = Len(extraction.after[2])
        /\ extraction.op = "insert" =>
              extraction.after[1] = extraction.after[2]

\* C13: over the lifetime of the process, in every interleaving of getDb
\* callers, a second caller arriving while the first connect is pending
\* included, at most one store client is created, and the handle every
\* caller gets is that client's.
C13_SingleStoreClient ==
    /\ client <= 1
    /\ db \in {0, 1}

\* C14: once a socket has reported 'close' and a restart has put a new
\* socket in its place, a messages.upsert batch delivered to the old socket
\* is dropped: none of its events yields a Message or a send.
C14_OldSocketBatchDropped ==
    \A hk \in Slots :
        handlers[hk[1]].replaced =>
            /\ MessagesOf(Event(hk)) = {}
            /\ SendsOf(Event(hk)) = {}

C15_State ==
    /\ exited <=> \E i \in 1..Len(starts) :
                     starts[i].origin = "main" /\ starts[i].pc = "threw"
    /\ \A i \in 1..Len(starts) :
          starts[i].pc = "threw" =>
              /\ errors >= 1
              /\ starts[i].origin = "restart" => ~exited
    /\ exited => sockets = <<>> /\ handlers = <<>>

C15_Step ==
    \A i \in 1..Len(starts) :
        (starts[i].pc # "threw" /\ starts'[i].pc = "threw") =>
            /\ errors' = errors + 1
            /\ exited' = (starts[i].origin = "main")
            /\ UNCHANGED <<store, sockets, handlers>>

\* C15: when startWhatsApp fails on the first start, the error is logged and
\* the process exits with a non-zero code; when it fails in a scheduled
\* restart, the error is caught and logged and the process goes on.
C15_StartFailureHandling == []C15_State /\ [][C15_Step]_vars

\* a restart has failed and the process still runs, with its first socket
C15_Witness ==
    /\ \E i \in 1..Len(starts) :
          starts[i].origin = "restart" /\ starts[i].pc = "threw"
    /\ ~exited
    /\ errors = 1
    /\ Len(sockets) = 1

C16_State ==
    /\ \A s \in 1..Len(sockets) :
          /\ sockets[s].auth = "auth"
          /\ sockets[s].on
               = {"creds.update", "connection.update", "messages.upsert"}
    /\ Len(sockets) <= Len(starts)

C16_Step ==
    /\ restartCloses' = restartCloses + 1 =>
          /\ Len(sockets') = Len(sockets)
          /\ starts' = starts
          /\ nextTick' = nextTick + 1
    /\ Len(starts') > Len(starts) =>
          /\ nextTick' = nextTick - 1
          /\ restartCloses' = restartCloses
          /\ sockets' = sockets
    /\ Len(sockets') > Len(sockets) =>
          /\ restartCloses' = restartCloses
          /\ \E i \in 1..Len(starts) :
                starts[i].pc = "version" /\ starts'[i].pc = "returned"

\* C16: on a close with code 515 the close handler creates no socket and
\* calls no start: it returns with the restart queued, the start runs in a
\* later scheduler step, and the socket that start creates has the
\* credentials and the handlers for creds, connection and message events.
C16_RestartDeferred == []C16_State /\ [][C16_Step]_vars

\* the restart is queued and not yet run: still one socket, one start
C16_Witness ==
    /\ restartCloses = 1
    /\ nextTick = 1
    /\ Len(starts) = 1
    /\ Len(sockets) = 1
    /\ sockets[1].connection = "close"

SendsOfBatch(h) ==
    { i \in 1..Len(sent) : \E hk \in SlotsOf(h) : sent[i].event = Event(hk).id }

\* event ids count the events in the order of their delivery
C17_State ==
    \A h \in Handlers :
        /\ \A hk \in SlotsOf(h) :
              (MessagesOf(Event(hk)) # {} \/ SendsOf(Event(hk)) # {}) =>
                  /\ Processed(hk)
                  /\ \A hj \in SlotsOf(h) :
                        Event(hj).id < Event(hk).id => Processed(hj)
        /\ \A i \in MessagesOfBatch(h), j \in MessagesOfBatch(h) :
              i < j => messages[i].rawPayload.id < messages[j].rawPayload.id
        /\ \A i \in SendsOfBatch(h), j \in SendsOfBatch(h) :
              i < j => sent[i].event < sent[j].event

C17_Step ==
    \A h \in Handlers :
        (Stepped(h) /\ store' # store) =>
            /\ InEvent(h)
            /\ \A hj \in SlotsOf(h) :
                  Event(hj).id < Current(h).id => Processed(hj)
            /\ \A hj \in SlotsOf(h) :
                  Event(hj).id > Current(h).id =>
                      ~Processed(hj) /\ MessagesOf(Event(hj)) = {}
                                     /\ SendsOf(Event(hj)) = {}
            /\ messages' # messages =>
                  messages'[Len(messages')].rawPayload = Current(h)
            /\ sent' # sent => sent'[Len(sent')].event = Current(h).id

\* C17: within one batch the events are processed strictly in delivery
\* order: every write and send of an event is finished, or has failed,
\* before the first of any later event of the batch begins, and the Messages
\* of the batch are appended in delivery order.
C17_BatchInDeliveryOrder == []C17_State /\ [][C17_Step]_vars

\* a batch of three went through: stored, answered, stored
C17_Witness ==
    \E h \in Handlers :
        /\ handlers[h].pc = "done"
        /\ handlers[h].outcomes = <<"persisted", "pong", "persisted">>
        /\ Len(messages) = 2
        /\ messages[1].rawPayload = handlers[h].messages[1]
        /\ messages[2].rawPayload = handlers[h].messages[3]

C18_Step ==
    /\ Len(messages') >= Len(messages)
    /\ SubSeq(messages', 1, Len(messages)) = messages
    /\ Len(conversations') >= Len(conversations)
    /\ \A c \in 1..Len(conversations) :
          conversations'[c]
            = [conversations[c] EXCEPT
                 !.updatedAt = conversations'[c].updatedAt]

\* C18: no step of the processing of an event changes or removes a stored
\* Message or removes a Conversation, and on a Conversation that exists a
\* later message changes updatedAt alone: id, from and createdAt stay.
C18_OnlyUpdatedAtChanges == [][C18_Step]_vars

\* the known p1 has written twice: updatedAt moved twice, the rest stayed,
\* and the first Message is still the stored one
C18_Witness ==
    /\ Len(messages) = 2
    /\ messages[1].rawPayload.remoteJid = "p1"
    /\ messages[2].rawPayload.remoteJid = "p1"
    /\ messages[1].createdAt < messages[2].createdAt
    /\ conversations[1] = [_id |-> 1, from |-> "p1", createdAt |-> 0,
                           updatedAt |-> messages[2].createdAt]

\* a socket emitted connection.update, and not a close with code 515
OtherConnectionEvent ==
    /\ inputs' = inputs + 1
    /\ credsSaved' = credsSaved
    /\ restartCloses' = restartCloses

C19_Step ==
    OtherConnectionEvent =>
        /\ Len(sockets') = Len(sockets)
        /\ \A s \in 1..Len(sockets) :
              /\ sockets'[s].auth = sockets[s].auth
              /\ sockets'[s].on = sockets[s].on
        /\ nextTick' = nextTick
        /\ starts' = starts
        /\ UNCHANGED <<conversations, messages, sent>>
        /\ UNCHANGED <<handlers, mongo, exited>>

\* C19: a connection event that is not a close with code 515 (open,
\* connecting, a QR update, a close with logged-out or any other code or
\* none) leaves the sockets in existence, the Conversations, the Messages
\* and the sends as they were, and queues no restart.
C19_OtherConnectionEventsInert == [][C19_Step]_vars

\* four connection events, the last a close, none of them a restart
C19_Witness ==
    /\ inputs = MaxInputs
    /\ handlers = <<>>
    /\ credsSaved = 0
    /\ restartCloses = 0
    /\ Len(sockets) = 1
    /\ sockets[1].connection = "close"
    /\ nextTick = 0
    /\ Len(starts) = 1

FinalOutcomes == {"skipped", "pong", "persisted", "error"}

C20_State ==
    \A h \in Handlers :
        /\ handlers[h].pc \in Awaiting \cup {"getDb", "done"}
        /\ handlers[h].type = "notify" =>
              /\ Len(handlers[h].outcomes) <= Len(handlers[h].messages)
              /\ \A k \in 1..Len(handlers[h].outcomes) :
                    handlers[h].outcomes[k] \in FinalOutcomes
              /\ handlers[h].pc = "done" =>
                    Len(handlers[h].outcomes) = Len(handlers[h].messages)

\* an outcome, once reached, is final
C20_Step ==
    \A h \in Handlers :
        /\ Len(handlers'[h].outcomes) >= Len(handlers[h].outcomes)
        /\ SubSeq(handlers'[h].outcomes, 1, Len(handlers[h].outcomes))
             = handlers[h].outcomes

\* C20: when every awaited call resolves or rejects in the end, every
\* handler invocation finishes, and each event of a live batch then has
\* exactly one final outcome among skipped, pong, persisted and error;
\* connection events and other batches in between do not prevent it.
C20_EveryHandlerFinishes ==
    /\ []C20_State
    /\ [][C20_Step]_vars
    /\ \A h \in 1..MaxHandlers :
          (Len(handlers) >= h) ~> (Len(handlers) >= h /\ handlers[h].pc = "done")

\* two batches and a failed call: both handlers have finished
C20_Witness ==
    /\ Len(handlers) = 2
    /\ AllDone
    /\ handlers[1].outcomes = <<"error">>
    /\ handlers[2].outcomes = <<"persisted">>

====
